---- MODULE Spec2Model ----
(***************************************************************************)
(* A model of capitulo_1/codigo.py: the FrenchDeck sequence (len, scalar   *)
(* and slice indexing, containment, iteration, random choice, sorting by   *)
(* spades_high) and the Vector value type (abs, bool, add, mul).           *)
(*                                                                         *)
(* Python integers are unbounded, so TLA+ integers model them directly.    *)
(* Python positions are 0-based, TLA+ sequences are 1-based: list position *)
(* p is element p + 1 of the sequence.                                     *)
(***************************************************************************)
EXTENDS Integers, Sequences, FiniteSets, TLC

VARIABLES
    cards,      \* FrenchDeck._cards of the one deck
    result,     \* outcome of the last deck / spades_high operation
    itstate,    \* per traversal: "idle", "running" or "exhausted"
    cursor,     \* per traversal: the sequence iterator's next position
    yielded,    \* per traversal: the cards it has produced so far
    vec,        \* the Vector under observation (fields x, y)
    vres        \* outcome of the last Vector operation

vars == <<cards, result, itstate, cursor, yielded, vec, vres>>
deckVars == <<cards, result>>
iterVars == <<itstate, cursor, yielded>>
vecVars == <<vec, vres>>

----------------------------------------------------------------------------
(* Bounds of the model *)

\* scalar positions tried are -PosBound .. PosBound
PosBound == 55
\* number of traversals of the deck that may be in progress at once
MaxTraversals == 2
\* Vector components are drawn from -MaxCoord .. MaxCoord
MaxCoord == 3
\* floats are modelled in fixed point, in units of 1 / FloatScale
FloatScale == 1000

----------------------------------------------------------------------------
(* Card and FrenchDeck *)

Card(rank, suit) == [rank |-> rank, suit |-> suit]

\* ranks = [str(n) for n in range(2, 11)] + list("JQKA")
ranks == <<"2", "3", "4", "5", "6", "7", "8", "9", "10", "J", "Q", "K", "A">>

\* suits = "spades diamonds clubs hearts".split()
suits == <<"spades", "diamonds", "clubs", "hearts">>

\* the inner loop of the comprehension: for rank in self.ranks
RECURSIVE RanksLoop(_, _, _)
RanksLoop(suit, j, acc) ==
    IF j > Len(ranks) THEN acc
    ELSE RanksLoop(suit, j + 1, Append(acc, Card(ranks[j], suit)))

\* the outer loop of the comprehension: for suit in self.suits
RECURSIVE SuitsLoop(_, _)
SuitsLoop(i, acc) ==
    IF i > Len(suits) THEN acc
    ELSE SuitsLoop(i + 1, RanksLoop(suits[i], 1, acc))

\* self._cards = [Card(rank, suit) for suit in self.suits for rank in self.ranks]
FrenchDeck_init == SuitsLoop(1, <<>>)

\* outcomes: exc is "none" or the exception raised; kind tells what value is
Ok(kind, value) == [exc |-> "none", kind |-> kind, value |-> value]
Raise(exc) == [exc |-> exc, kind |-> "none", value |-> <<>>]

\* FrenchDeck.__len__: len(self._cards)
FrenchDeck_len(cs) == Len(cs)

\* list indexing with the negative position at the wrong offset
ListGetItemOffByOne(list, p) ==
    LET q == IF p < 0 THEN p + Len(list) - 1 ELSE p
    IN IF q < 0 \/ q >= Len(list) THEN Raise("IndexError")
       ELSE Ok("card", list[q + 1])

\* list indexing that clamps a position before the start, as slicing does
ListGetItemClamped(list, p) ==
    LET n == IF p < 0 THEN p + Len(list) ELSE p
        q == IF n < 0 THEN 0 ELSE n
    IN IF q >= Len(list) THEN Raise("IndexError")
       ELSE Ok("card", list[q + 1])

\* self._cards[position] for an integer position: a negative position counts
\* from the end, and a position outside the list raises IndexError
ListGetItem(list, p) ==
    LET q == IF p < 0 THEN p + Len(list) ELSE p
    IN IF q < 0 \/ q >= Len(list) THEN Raise("IndexError")
       ELSE Ok("card", list[q + 1])

\* an omitted slice field (None) is <<>>, a given one is <<n>>
None == <<>>
Some(n) == <<n>>
IsNone(f) == Len(f) = 0

\* the clamping of one slice end against the list length
AdjustIndex(f, length, step, dflt) ==
    IF IsNone(f) THEN dflt
    ELSE LET n == IF f[1] < 0 THEN f[1] + length ELSE f[1]
         IN IF n < 0 THEN (IF step < 0 THEN -1 ELSE 0)
            ELSE IF n >= length THEN (IF step < 0 THEN length - 1 ELSE length)
            ELSE n

\* a count that rounds the last stride down
SliceLengthFloor(start, stop, step) ==
    IF step < 0
    THEN (IF stop < start THEN (start - stop) \div (-step) ELSE 0)
    ELSE (IF start < stop THEN (stop - start) \div step ELSE 0)

\* the number of positions start, start + step, ... before stop
SliceLength(start, stop, step) ==
    IF step < 0
    THEN (IF stop < start THEN ((start - stop - 1) \div (-step)) + 1 ELSE 0)
    ELSE (IF start < stop THEN ((stop - start - 1) \div step) + 1 ELSE 0)

\* self._cards[start:stop:step]: a zero step raises ValueError, otherwise
\* the ends are clamped and a new list is built
ListGetSlice(list, sl) ==
    LET step == IF IsNone(sl.step) THEN 1 ELSE sl.step[1]
    IN IF step = 0 THEN Raise("ValueError")
       ELSE LET length == Len(list)
                start == AdjustIndex(sl.start, length, step,
                                     IF step < 0 THEN length - 1 ELSE 0)
                stop == AdjustIndex(sl.stop, length, step,
                                    IF step < 0 THEN -1 ELSE length)
                n == SliceLength(start, stop, step)
            IN Ok("list", [i \in 1..n |-> list[start + (i - 1) * step + 1]])

\* FrenchDeck.__getitem__: self._cards[position], position an int or a slice
FrenchDeck_getitem(cs, position) ==
    IF position.slice THEN ListGetSlice(cs, position)
    ELSE ListGetItem(cs, position.index)

Index(p) == [slice |-> FALSE, index |-> p]
Slice(start, stop, step) == [slice |-> TRUE, start |-> start, stop |-> stop, step |-> step]

\* a membership probe that starts one position too late
RECURSIVE SeqContainsFromOne(_, _, _)
SeqContainsFromOne(cs, c, i) ==
    LET r == FrenchDeck_getitem(cs, Index(i + 1))
    IN IF r.exc = "IndexError" THEN FALSE
       ELSE IF r.value = c THEN TRUE
       ELSE SeqContainsFromOne(cs, c, i + 1)

\* `card in deck` (lines 64-65): FrenchDeck has no __contains__ and no
\* __iter__, so the interpreter probes deck[0], deck[1], ... and compares
\* each item; the IndexError that ends the probe means "not found"
RECURSIVE SeqContains(_, _, _)
SeqContains(cs, c, i) ==
    LET r == FrenchDeck_getitem(cs, Index(i))
    IN IF r.exc = "IndexError" THEN FALSE
       ELSE IF r.value = c THEN TRUE
       ELSE SeqContains(cs, c, i + 1)

\* list(deck), as `for card in deck` (lines 62-63) and sorted() consume the
\* deck: deck[0], deck[1], ... until IndexError
RECURSIVE SeqToList(_, _, _)
SeqToList(cs, i, acc) ==
    LET r == FrenchDeck_getitem(cs, Index(i))
    IN IF r.exc = "IndexError" THEN acc
       ELSE SeqToList(cs, i + 1, Append(acc, r.value))

----------------------------------------------------------------------------
(* spades_high *)

\* suit_values = dict(spades=3, hearts=2, diamonds=1, clubs=0)
suit_values ==
    [s \in {"spades", "hearts", "diamonds", "clubs"} |->
        CASE s = "spades" -> 3
          [] s = "hearts" -> 2
          [] s = "diamonds" -> 1
          [] s = "clubs" -> 0]

\* list.index(x): the 0-based position of the first item equal to x, and
\* ValueError when there is none
RECURSIVE ListIndex(_, _, _)
ListIndex(list, x, i) ==
    IF i > Len(list) THEN Raise("ValueError")
    ELSE IF list[i] = x THEN Ok("int", i - 1)
    ELSE ListIndex(list, x, i + 1)

\* suit_values[card.suit]: KeyError when the suit has no entry
DictGetItem(d, k) ==
    IF k \in DOMAIN d THEN Ok("int", d[k]) ELSE Raise("KeyError")

\* a key that multiplies the rank by one less than the number of suits
spades_high_narrow(card) ==
    LET rank_value == ListIndex(ranks, card.rank, 1)
    IN IF rank_value.exc # "none" THEN rank_value
       ELSE LET w == DictGetItem(suit_values, card.suit)
            IN IF w.exc # "none" THEN w
               ELSE Ok("int", rank_value.value * (Cardinality(DOMAIN suit_values) - 1) + w.value)

\* a key that weighs a suit without an entry as 0
spades_high_default(card) ==
    LET rank_value == ListIndex(ranks, card.rank, 1)
    IN IF rank_value.exc # "none" THEN rank_value
       ELSE LET w == IF card.suit \in DOMAIN suit_values
                     THEN suit_values[card.suit] ELSE 0
            IN Ok("int", rank_value.value * Cardinality(DOMAIN suit_values) + w)

\* spades_high(card): the rank is looked up first, then the suit
spades_high(card) ==
    LET rank_value == ListIndex(ranks, card.rank, 1)
    IN IF rank_value.exc # "none" THEN rank_value
       ELSE LET w == DictGetItem(suit_values, card.suit)
            IN IF w.exc # "none" THEN w
               ELSE Ok("int", rank_value.value * Cardinality(DOMAIN suit_values) + w.value)

----------------------------------------------------------------------------
(* sorted(deck, key=spades_high) *)

\* a position that orders the keys the wrong way round
SortPositionReversed(keys, i) ==
    Cardinality({j \in 1..Len(keys) :
                    keys[i] < keys[j] \/ (keys[j] = keys[i] /\ j < i)}) + 1

\* where item i of the input lands in the output of the stable sort: after
\* every item with a smaller key, and after the earlier items with an equal
\* key (keys are compared with <)
SortPosition(keys, i) ==
    Cardinality({j \in 1..Len(keys) :
                    keys[j] < keys[i] \/ (keys[j] = keys[i] /\ j < i)}) + 1

\* sorted(list, key=spades_high): every key is computed first, in order, and
\* the first exception of a key propagates; then the items are sorted stably
\* (<<>> \o f evaluates the list f once instead of at every use)
Sorted(list) ==
    LET n == Len(list)
        outcomes == <<>> \o [i \in 1..n |-> spades_high(list[i])]
        bad == {i \in 1..n : outcomes[i].exc # "none"}
    IN IF bad # {}
       THEN outcomes[CHOOSE i \in bad : \A j \in bad : i <= j]
       ELSE LET keys == <<>> \o [i \in 1..n |-> outcomes[i].value]
                pos == <<>> \o [i \in 1..n |-> SortPosition(keys, i)]
            IN Ok("list", [p \in 1..n |-> list[CHOOSE i \in 1..n : pos[i] = p]])

----------------------------------------------------------------------------
(* The operations on the deck, as exemplo_1 uses them *)

Outcome(op, arg, r) ==
    [op |-> op, arg |-> arg, exc |-> r.exc, kind |-> r.kind, value |-> r.value]

Positions == (-PosBound)..PosBound

SliceEnds == {None} \cup {Some(n) : n \in {-PosBound, -52, -1, 0, 10, 52, PosBound}}
SliceSteps == {None} \cup {Some(n) : n \in {-1, 0, 1, 2, 3}}

\* cards inside and outside the deck's domains
ProbeRanks == {ranks[i] : i \in 1..Len(ranks)} \cup {"1"}
ProbeSuits == {suits[i] : i \in 1..Len(suits)} \cup {"beasts"}
ProbeCards == {Card(r, s) : r \in ProbeRanks, s \in ProbeSuits}

\* len(deck), line 56
DoLen ==
    /\ result' = Outcome("len", <<>>, Ok("int", FrenchDeck_len(cards)))
    /\ UNCHANGED <<cards, iterVars, vecVars>>

\* deck[p], lines 57-58
DoGetItem(p) ==
    /\ result' = Outcome("getitem", p, FrenchDeck_getitem(cards, Index(p)))
    /\ UNCHANGED <<cards, iterVars, vecVars>>

\* deck[start:stop:step], lines 59-60
DoGetSlice(start, stop, step) ==
    /\ result' = Outcome("getslice", Slice(start, stop, step),
                         FrenchDeck_getitem(cards, Slice(start, stop, step)))
    /\ UNCHANGED <<cards, iterVars, vecVars>>

\* a draw that takes the card out of the deck
DoChoicePop ==
    /\ FrenchDeck_len(cards) > 0
    /\ result' = Outcome("choice", <<>>, FrenchDeck_getitem(cards, Index(-1)))
    /\ cards' = SubSeq(cards, 1, Len(cards) - 1)
    /\ UNCHANGED <<iterVars, vecVars>>

\* choice(deck), line 61: deck[i] for a random i below len(deck)
DoChoice ==
    /\ \E i \in 0..(FrenchDeck_len(cards) - 1) :
          result' = Outcome("choice", <<>>, FrenchDeck_getitem(cards, Index(i)))
    /\ UNCHANGED <<cards, iterVars, vecVars>>

\* for card in deck, lines 62-63, run to its end
DoForLoop ==
    /\ result' = Outcome("for", <<>>, Ok("list", SeqToList(cards, 0, <<>>)))
    /\ UNCHANGED <<cards, iterVars, vecVars>>

\* card in deck, lines 64-65
DoContains(c) ==
    /\ result' = Outcome("contains", c, Ok("bool", SeqContains(cards, c, 0)))
    /\ UNCHANGED <<cards, iterVars, vecVars>>

\* spades_high(card)
DoSpadesHigh(c) ==
    /\ result' = Outcome("spades_high", c, spades_high(c))
    /\ UNCHANGED <<cards, iterVars, vecVars>>

\* sorted(deck, key=spades_high), line 66
DoSortedDeck ==
    /\ result' = Outcome("sorted", SeqToList(cards, 0, <<>>),
                         Sorted(SeqToList(cards, 0, <<>>)))
    /\ UNCHANGED <<cards, iterVars, vecVars>>

\* sorted(l, key=spades_high) for a list l the program holds
DoSortedList ==
    /\ result.kind = "list"
    /\ result' = Outcome("sorted", result.value, Sorted(result.value))
    /\ UNCHANGED <<cards, iterVars, vecVars>>

----------------------------------------------------------------------------
(* Traversals of the deck, one step at a time *)

Traversals == 1..MaxTraversals

\* iter(deck): a fresh sequence iterator at position 0
IterStart(k) ==
    /\ itstate' = [itstate EXCEPT ![k] = "running"]
    /\ cursor' = [cursor EXCEPT ![k] = 0]
    /\ yielded' = [yielded EXCEPT ![k] = <<>>]
    /\ UNCHANGED <<cards, result, vecVars>>

\* a step that moves the position of every running traversal
IterNextShared(k) ==
    /\ itstate[k] = "running"
    /\ LET r == FrenchDeck_getitem(cards, Index(cursor[k]))
       IN IF r.exc = "IndexError"
          THEN /\ itstate' = [itstate EXCEPT ![k] = "exhausted"]
               /\ UNCHANGED <<cursor, yielded>>
          ELSE /\ cursor' = [j \in Traversals |->
                                IF itstate[j] = "running" THEN cursor[j] + 1 ELSE cursor[j]]
               /\ yielded' = [yielded EXCEPT ![k] = Append(@, r.value)]
               /\ UNCHANGED itstate
    /\ UNCHANGED <<cards, result, vecVars>>

\* next(it): deck[position]; IndexError ends the traversal (StopIteration),
\* otherwise the item is produced and the position moves on by one
IterNext(k) ==
    /\ itstate[k] = "running"
    /\ LET r == FrenchDeck_getitem(cards, Index(cursor[k]))
       IN IF r.exc = "IndexError"
          THEN /\ itstate' = [itstate EXCEPT ![k] = "exhausted"]
               /\ UNCHANGED <<cursor, yielded>>
          ELSE /\ cursor' = [cursor EXCEPT ![k] = @ + 1]
               /\ yielded' = [yielded EXCEPT ![k] = Append(@, r.value)]
               /\ UNCHANGED itstate
    /\ UNCHANGED <<cards, result, vecVars>>

----------------------------------------------------------------------------
(* Vector *)

\* Vector.__init__(self, x=0, y=0)
Vector_init(x, y) == [x |-> x, y |-> y]

\* the integer square root, by Newton's iteration
RECURSIVE Newton(_, _)
Newton(n, x) ==
    LET y == (x + (n \div x)) \div 2
    IN IF y >= x THEN x ELSE Newton(n, y)

ISqrt(n) == IF n = 0 THEN 0 ELSE Newton(n, n)

\* math.hypot(x, y) = sqrt(x*x + y*y), a float: here the multiple of
\* 1 / FloatScale just below it
Hypot(x, y) == ISqrt(FloatScale * FloatScale * (x * x + y * y))

\* a magnitude that adds the components instead of their squares
Vector_abs_sum(v) == FloatScale * (v.x + v.y)

\* Vector.__abs__: math.hypot(self.x, self.y)
Vector_abs(v) == Hypot(v.x, v.y)

\* Vector.__bool__: bool(abs(self)); a float is true unless it is 0.0
Vector_bool(v) == Vector_abs(v) # 0

\* Vector.__add__
Vector_add(v, other) == Vector_init(v.x + other.x, v.y + other.y)

\* Vector.__mul__
Vector_mul(v, scalar) == Vector_init(v.x * scalar, v.y * scalar)

Coords == (-MaxCoord)..MaxCoord

\* v = Vector(x, y); Vector() is Vector(0, 0)
VecNew(x, y) ==
    /\ vec' = Vector_init(x, y)
    /\ vres' = [op |-> "init", arg |-> Vector_init(x, y), value |-> <<>>]
    /\ UNCHANGED <<deckVars, iterVars>>

\* abs(v), line 76
VecAbs ==
    /\ vres' = [op |-> "abs", arg |-> vec, value |-> Vector_abs(vec)]
    /\ UNCHANGED <<vec, deckVars, iterVars>>

\* bool(v), lines 77-78
VecBool ==
    /\ vres' = [op |-> "bool", arg |-> vec, value |-> Vector_bool(vec)]
    /\ UNCHANGED <<vec, deckVars, iterVars>>

\* v + other, line 75
VecAdd(other) ==
    /\ vres' = [op |-> "add", arg |-> vec, value |-> Vector_add(vec, other)]
    /\ UNCHANGED <<vec, deckVars, iterVars>>

\* v * scalar, line 79
VecMul(scalar) ==
    /\ vres' = [op |-> "mul", arg |-> vec, value |-> Vector_mul(vec, scalar)]
    /\ UNCHANGED <<vec, deckVars, iterVars>>

----------------------------------------------------------------------------
(* Specifications *)

Init ==
    /\ cards = FrenchDeck_init
    /\ result = Outcome("init", <<>>, Ok("none", <<>>))
    /\ itstate = [k \in Traversals |-> "idle"]
    /\ cursor = [k \in Traversals |-> 0]
    /\ yielded = [k \in Traversals |-> <<>>]
    /\ vec = Vector_init(0, 0)
    /\ vres = [op |-> "init", arg |-> Vector_init(0, 0), value |-> <<>>]

\* the read operations on one deck, in any order
Next ==
    \/ DoLen
    \/ \E p \in Positions : DoGetItem(p)
    \/ \E start \in SliceEnds, stop \in SliceEnds, step \in SliceSteps :
          DoGetSlice(start, stop, step)
    \/ DoChoice
    \/ DoForLoop
    \/ \E c \in ProbeCards : DoContains(c)
    \/ \E c \in ProbeCards : DoSpadesHigh(c)
    \/ DoSortedDeck
    \/ DoSortedList

Spec == Init /\ [][Next]_vars

\* traversals of one deck whose steps interleave
NextIter ==
    \/ \E k \in Traversals : IterStart(k)
    \/ \E k \in Traversals : IterNext(k)

SpecIter == Init /\ [][NextIter]_vars

\* operations on Vector values
NextVector ==
    \/ \E x \in Coords, y \in Coords : VecNew(x, y)
    \/ VecAbs
    \/ VecBool
    \/ \E other \in {Vector_init(x, y) : x \in Coords, y \in Coords} : VecAdd(other)
    \/ \E scalar \in Coords : VecMul(scalar)

SpecVector == Init /\ [][NextVector]_vars

----------------------------------------------------------------------------
(* Properties *)

DeckCards == {cards[i] : i \in 1..Len(cards)}

\* the card the construction order puts at position i, 0 <= i < 52
CardAt(i) == Card(ranks[(i % 13) + 1], suits[(i \div 13) + 1])

\* C1: the deck holds 52 = |ranks| * |suits| pairwise distinct cards, and no
\* read operation (len, indexing, slicing, containment, iteration, choice,
\* sorted) adds, removes or reorders a card: the deck stays as constructed.
C1_DeckFixed ==
    /\ FrenchDeck_len(cards) = 52
    /\ Len(cards) = Len(ranks) * Len(suits)
    /\ \A i, j \in 1..Len(cards) : i # j => cards[i] # cards[j]
    /\ cards = FrenchDeck_init

C1_Witness ==
    /\ result.op = "sorted"
    /\ result.exc = "none"
    /\ Len(cards) = 52

\* C2: deck[i] is Card(ranks[i mod 13], suits[i div 13]) for i in 0..51, the
\* suits in the order spades, diamonds, clubs, hearts and the ranks in the
\* order 2..10, J, Q, K, A; deck[-k] is deck[52 - k] for k in 1..52;
\* deck[0] is the 2 of spades and deck[-1] the ace of hearts.
C2_ConstructionOrder ==
    /\ suits = <<"spades", "diamonds", "clubs", "hearts">>
    /\ ranks = <<"2", "3", "4", "5", "6", "7", "8", "9", "10", "J", "Q", "K", "A">>
    /\ result.op = "getitem" =>
          /\ result.arg \in 0..51 =>
                result.exc = "none" /\ result.value = CardAt(result.arg)
          /\ -result.arg \in 1..52 =>
                result.exc = "none" /\ result.value = CardAt(52 + result.arg)
          /\ result.arg = 0 => result.value = Card("2", "spades")
          /\ result.arg = -1 => result.value = Card("A", "hearts")

C2_Witness ==
    /\ result.op = "getitem"
    /\ result.arg = -1
    /\ result.value = Card("A", "hearts")

\* C3: deck[p] raises IndexError exactly when p < -52 or p >= 52; then no
\* card is returned and the deck is as before; otherwise exactly one card of
\* the deck is returned.
C3_IndexError ==
    result.op = "getitem" =>
        /\ result.exc = "IndexError" <=> (result.arg < -52 \/ result.arg >= 52)
        /\ result.exc \in {"none", "IndexError"}
        /\ result.exc = "IndexError" =>
              result.kind = "none" /\ cards = FrenchDeck_init
        /\ result.exc = "none" =>
              result.kind = "card" /\ result.value \in DeckCards

C3_Witness ==
    /\ result.op = "getitem"
    /\ result.arg = 52
    /\ result.exc = "IndexError"

\* the cards at start, start + step, ... below min(stop, 52), in order
ForwardSlice(start, stop, step) ==
    LET hits == {q \in 0..51 : q >= start /\ q < stop /\ (q - start) % step = 0}
    IN [i \in 1..Cardinality(hits) |-> cards[start + (i - 1) * step + 1]]

StepOf(sl) == IF IsNone(sl.step) THEN 1 ELSE sl.step[1]

\* the two slices of exemplo_1: deck[0:10] and deck[0:10:2]
SliceExamples ==
    /\ result.arg = Slice(Some(0), Some(10), None) =>
          result.value = [i \in 1..10 |-> cards[i]]
    /\ result.arg = Slice(Some(0), Some(10), Some(2)) =>
          result.value = <<cards[1], cards[3], cards[5], cards[7], cards[9]>>

\* C4 as stated: every slice, whatever its step and bounds, succeeds with a
\* list, and for 0 <= start and step >= 1 the list is deck[start],
\* deck[start + step], ... for the positions below min(stop, 52), stop being
\* a position (0 <= stop).
C4_Original ==
    result.op = "getslice" =>
        /\ result.exc = "none"
        /\ result.kind = "list"
        /\ (/\ ~IsNone(result.arg.start)
            /\ ~IsNone(result.arg.stop)
            /\ result.arg.start[1] >= 0
            /\ result.arg.stop[1] >= 0
            /\ StepOf(result.arg) >= 1) =>
              result.value = ForwardSlice(result.arg.start[1], result.arg.stop[1],
                                          StepOf(result.arg))
        /\ SliceExamples

\* C4: a slice with a step other than 0 never fails, whatever its bounds,
\* and returns a list of cards of the deck (empty when nothing is selected);
\* a step of 0 raises ValueError; for 0 <= start, 0 <= stop and step >= 1
\* the list is deck[start], deck[start + step], ... for the positions below
\* min(stop, 52); deck[0:10] and deck[0:10:2] are as in exemplo_1.
C4_Slices ==
    result.op = "getslice" =>
        /\ result.exc = "ValueError" <=> StepOf(result.arg) = 0
        /\ StepOf(result.arg) # 0 =>
              /\ result.exc = "none"
              /\ result.kind = "list"
              /\ Len(result.value) <= 52
              /\ \A i \in 1..Len(result.value) : result.value[i] \in DeckCards
              /\ cards = FrenchDeck_init
        /\ (/\ ~IsNone(result.arg.start)
            /\ ~IsNone(result.arg.stop)
            /\ result.arg.start[1] >= 0
            /\ result.arg.stop[1] >= 0
            /\ StepOf(result.arg) >= 1) =>
              result.value = ForwardSlice(result.arg.start[1], result.arg.stop[1],
                                          StepOf(result.arg))
        /\ SliceExamples

C4_Witness ==
    /\ result.op = "getslice"
    /\ result.arg = Slice(Some(0), Some(10), Some(2))
    /\ Len(result.value) = 5

\* C5: `c in deck` never raises and is true exactly when some deck[i] has
\* the rank and the suit of c, also for a card outside the deck's domains;
\* Card('Q', 'hearts') is in the deck and Card('Q', 'beasts') is not.
C5_Contains ==
    result.op = "contains" =>
        /\ result.exc = "none"
        /\ result.kind = "bool"
        /\ result.value <=>
              \E i \in 1..52 : /\ cards[i].rank = result.arg.rank
                               /\ cards[i].suit = result.arg.suit
        /\ result.arg = Card("Q", "hearts") => result.value
        /\ result.arg = Card("Q", "beasts") => ~result.value

C5_Witness ==
    /\ result.op = "contains"
    /\ result.arg = Card("Q", "beasts")
    /\ result.value = FALSE

\* C6: a traversal yields deck[0], deck[1], ... in order, one card per step,
\* and ends after exactly 52 cards without an error; every traversal starts
\* at position 0 with a cursor of its own, so interleaved traversals each
\* yield the construction order.
C6_Iteration ==
    \A k \in Traversals :
        itstate[k] # "idle" =>
            /\ cursor[k] \in 0..52
            /\ Len(yielded[k]) = cursor[k]
            /\ \A i \in 1..Len(yielded[k]) : yielded[k][i] = cards[i]
            /\ itstate[k] = "exhausted" =>
                  Len(yielded[k]) = 52 /\ yielded[k] = cards

C6_Witness ==
    /\ itstate[1] = "exhausted"
    /\ itstate[2] = "running"
    /\ cursor[2] = 20
    /\ Len(yielded[1]) = 52

\* the priority the claim gives a card of the deck
RankIndex(rank) ==
    CHOOSE i \in 0..12 :
        <<"2", "3", "4", "5", "6", "7", "8", "9", "10", "J", "Q", "K", "A">>[i + 1] = rank
SuitWeight(suit) ==
    CASE suit = "spades" -> 3
      [] suit = "hearts" -> 2
      [] suit = "diamonds" -> 1
      [] suit = "clubs" -> 0

\* C7: for a card c of the deck spades_high(c) = rankIndex * 4 + suitWeight;
\* the 52 cards map one-to-one onto 0..51, a higher rank always has a higher
\* priority, spades is the highest of a rank; the 2 of clubs has priority 0,
\* the 2 of spades 3 and the ace of spades 51, the maximum.
C7_SpadesHigh ==
    (result.op = "spades_high" /\ result.arg \in DeckCards) =>
        /\ result.exc = "none"
        /\ result.value = RankIndex(result.arg.rank) * 4 + SuitWeight(result.arg.suit)
        /\ result.value \in 0..51
        /\ \A d \in DeckCards :
              /\ spades_high(d).exc = "none"
              /\ d # result.arg => spades_high(d).value # result.value
              /\ RankIndex(d.rank) > RankIndex(result.arg.rank) =>
                    spades_high(d).value > result.value
              /\ (d.rank = result.arg.rank /\ d # result.arg /\ result.arg.suit = "spades") =>
                    spades_high(d).value < result.value
              /\ spades_high(d).value <= 51
        /\ result.arg = Card("2", "clubs") => result.value = 0
        /\ result.arg = Card("2", "spades") => result.value = 3
        /\ result.arg = Card("A", "spades") => result.value = 51

C7_Witness ==
    /\ result.op = "spades_high"
    /\ result.arg = Card("A", "spades")
    /\ result.value = 51

RankSet == {ranks[i] : i \in 1..Len(ranks)}

\* C8 as stated: a card whose suit has no entry in suit_values makes
\* spades_high fail with the missing-key error, whatever its rank.
C8_Original ==
    (result.op = "spades_high" /\ result.arg.suit \notin DOMAIN suit_values) =>
        result.exc = "KeyError"

\* C8: a card whose suit has no entry in suit_values never gets a priority:
\* spades_high fails with KeyError when its rank is one of the deck's ranks
\* and with the ValueError of the rank lookup, which comes first, when it is
\* not; every suit of the deck has an entry, so no card of the deck fails.
C8_UnknownSuit ==
    /\ \A i \in 1..Len(suits) : suits[i] \in DOMAIN suit_values
    /\ result.op = "spades_high" =>
          /\ result.arg.suit \notin DOMAIN suit_values =>
                /\ result.exc # "none"
                /\ result.kind = "none"
                /\ result.arg.rank \in RankSet => result.exc = "KeyError"
                /\ result.arg.rank \notin RankSet => result.exc = "ValueError"
          /\ result.arg \in DeckCards => result.exc = "none" /\ result.kind = "int"

C8_Witness ==
    /\ result.op = "spades_high"
    /\ result.arg = Card("Q", "beasts")
    /\ result.exc = "KeyError"

\* the deck by increasing priority: ranks 2..A, and within a rank clubs,
\* diamonds, hearts, spades
PriorityOrder ==
    [i \in 1..52 |-> Card(ranks[((i - 1) \div 4) + 1],
                          <<"clubs", "diamonds", "hearts", "spades">>[((i - 1) % 4) + 1])]

IsDeckPermutation(l) ==
    Len(l) = 52 /\ \A c \in DeckCards : \E i \in 1..52 : l[i] = c

\* C9: sorted(l, key=spades_high) of the 52 deck cards in any order is the
\* permutation in strictly increasing priority: ranks 2..A, the four cards
\* of a rank together as clubs, diamonds, hearts, spades; sorting the sorted
\* list again returns it unchanged.
C9_Sorted ==
    (result.op = "sorted" /\ IsDeckPermutation(result.arg)) =>
        /\ result.exc = "none"
        /\ IsDeckPermutation(result.value)
        /\ \A i \in 1..51 :
              spades_high(result.value[i]).value < spades_high(result.value[i + 1]).value
        /\ result.value = PriorityOrder
        /\ result.arg = PriorityOrder => result.value = result.arg

C9_Witness ==
    /\ result.op = "sorted"
    /\ Len(result.arg) = 52
    /\ result.arg = result.value

\* C10: bool(v) is true exactly when abs(v) is not 0, that is when v.x or
\* v.y is not 0: Vector(0, 0) is the only falsy vector, negative components
\* included; bool(v) leaves v.x and v.y as they were.
C10_VectorBool ==
    /\ vres.op = "bool" =>
          /\ vres.value <=> (vres.arg.x # 0 \/ vres.arg.y # 0)
          /\ vres.arg = Vector_init(0, 0) => ~vres.value
          /\ vec = vres.arg
    /\ vres.op = "abs" =>
          /\ vres.value # 0 <=> (vres.arg.x # 0 \/ vres.arg.y # 0)
          /\ vec = vres.arg

C10_Witness ==
    /\ vres.op = "bool"
    /\ vres.arg.x < 0
    /\ vres.arg.y > 0
    /\ vres.value = TRUE

====
